---- MODULE Spec2Model ----
(***************************************************************************)
(* Model of the NES emulator: the picture processor (PPU) with its timing  *)
(* state machine and register interface (src/src/nes/ppu.rs), the memory   *)
(* bus and its word accesses (src/src/nes/memory.rs), the cartridge and    *)
(* its header (src/src/nes/cartridge.rs) and the instruction table         *)
(* (src/src/nes/cpu/instructions.rs).                                      *)
(* Numbers are decimal; the hexadecimal value of the source is given in a  *)
(* comment where it helps.                                                 *)
(***************************************************************************)
EXTENDS Integers, Sequences, FiniteSets, TLC

VARIABLES
    regs,            \* PPU.regs: Registers
    cycle,           \* PPU.cycle: u16
    scanline,        \* PPU.scanline: u16
    frame_ready,     \* PPU.frame_ready
    nmi,             \* PPU.nmi
    canvas_main,     \* PPU.canvas_main
    pattern_tables,  \* PPU.pattern_tables
    palettes,        \* PPU.palettes
    addr_latch_set,  \* PPU.addr_latch_set
    data_buffer,     \* PPU.data_buffer
    mem,             \* the PPU-side memory handed to the PPU (T: PPUMemory)
    panicked,        \* TRUE once an operation has panicked (unwrap, overflow check)
    ret,             \* value returned by the last readb
    last,            \* the last operation called and its arguments
    clocks,          \* number of counted clock calls (history)
    run,             \* bytes written to 0x2006 since the latch was last known unset (history)
    ram,             \* NESMemory.ram
    cartridge,       \* NESMemory.cartridge: Option<Cartridge>
    bus_last,        \* the last bus operation called and its arguments
    bus_ret,         \* value returned by the last bus readb
    pending,         \* the word operation in progress, after its first byte access
    word_ret,        \* value returned by the last readw
    header,          \* the Header the header methods are called on
    call,            \* the last call of a function without state, with its result
    borrow           \* NESMemory.ppu: the borrow state of the RefCell around the PPU

vars == <<regs, cycle, scanline, frame_ready, nmi, canvas_main, pattern_tables,
          palettes, addr_latch_set, data_buffer, mem, panicked, ret, last,
          clocks, run, ram, cartridge, bus_last, bus_ret, pending, word_ret,
          header, call, borrow>>

\* the state of the PPU, with its history variables
ppu == <<regs, cycle, scanline, frame_ready, nmi, canvas_main, pattern_tables,
         palettes, addr_latch_set, data_buffer, mem, panicked, ret, last,
         clocks, run>>

\* everything outside the PPU
rest == <<ram, cartridge, bus_last, bus_ret, pending, word_ret, header, call,
          borrow>>

timing == <<cycle, scanline, frame_ready, nmi>>
targets == <<canvas_main, pattern_tables, palettes>>

(***************************************************************************)
(* Bounds and input sets                                                   *)
(***************************************************************************)
\* counted clock calls: two frames of 341 * 262 clocks and a few more
MaxClocks == 178700
\* longest run of 0x2006 writes the history variable follows
MaxRun == 3

\* cells of the PPU-side memory: 0x1234, 0x2007, 0x3F00, 0x3F12
MemAddrs == {4660, 8199, 16128, 16146}
\* bytes the PPU-side memory may hold at start (pattern/palette data): 0x00, 0x5A
RomBytes == {0, 90}
\* bytes the driver writes to 0x2007: 0xAB
DataBytes == {171}
\* VRAM addresses at which the driver writes to 0x2007: 0x1234, 0x3F12, 0xFFFF
DataAddrs == {4660, 16146, 65535}
\* bytes the driver writes to 0x2006: 0x12, 0x34, 0x56, 0x3F, 0xFF
AddrBytes == {18, 52, 86, 63, 255}
\* bytes the driver writes to 0x2000 when the registers are exercised: INCREMENT_MODE
CtrlBytes == {4}
\* bytes the driver writes to 0x2000 when the timing is exercised: 0x00, ENABLE_NMI
NmiBytes == {0, 128}
\* bytes the driver writes to 0x2006 when the clock runs: 0x12
StatusAddrBytes == {18}
\* bytes the driver writes to 0x2000 before a reset: ENABLE_NMI
ResetCtrlBytes == {128}
\* values of the other register while every byte is written to 0x2000 or 0x2001
OtherRegBytes == {0, 255}
\* bus addresses the driver writes: 0x07FF, 0x0800 (ram), 0x3FFE, 0x2003,
\* 0x200D, 0x2002, 0x2004 (registers), 0x4000 (unmapped), 0x4020, 0x8000,
\* 0xC000 (cartridge)
BusWriteAddrs == {2047, 2048, 16382, 8195, 8205, 8194, 8196, 16384, 16416,
                  32768, 49152}
\* bus addresses the driver reads: 0x0000, 0x07FF, 0x1000, 0x1FFF (ram), 0x200A,
\* 0x2000, 0x3FFC (registers), 0x401F (unmapped), 0x4020, 0x8000, 0xC000,
\* 0xFFFF (cartridge)
BusReadAddrs == {0, 2047, 4096, 8191, 8202, 8192, 16380, 16415, 16416, 32768,
                 49152, 65535}
\* bytes the driver writes on the bus: 0x12
BusBytes == {18}
\* every byte value
Byte == 0..255
\* palettes the driver asks for
PaletteIds == {0}

(***************************************************************************)
(* Bit operations on bytes and words                                       *)
(***************************************************************************)
RECURSIVE BitAnd(_, _)
BitAnd(x, y) ==
    IF x = 0 \/ y = 0 THEN 0
    ELSE (x % 2) * (y % 2) + 2 * BitAnd(x \div 2, y \div 2)

BitOr(x, y) == x + y - BitAnd(x, y)

\* !flag on a Byte
BitNot8(x) == 255 - x

(***************************************************************************)
(* Register flags (bitflags! blocks)                                       *)
(***************************************************************************)
NAMETBL_X == 1
NAMETBL_Y == 2
INCREMENT_MODE == 4
PATTERN_SPRITE_ADDR == 8
PATTERN_BG_ADDR == 16
SPRITE_SIZE == 32
SLAVE_MODE == 64
ENABLE_NMI == 128
VERTICAL_BLANK == 128
SPRITE_ZERO_HIT == 64
SPRITE_OVERFOLW == 32

\* variant: Control declared without ENABLE_NMI
ControlAllNoNmi == 255 - ENABLE_NMI

\* union of the flags each bitflags! struct declares
ControlAll == 255
MaskAll == 255
StatusAll == 224

None == -1

\* bitflags from_bits: None when a bit outside the declared flags is set
from_bits(all, bits) == IF BitAnd(bits, BitNot8(all)) = 0 THEN bits ELSE None

Registers_new ==
    [ctrl |-> from_bits(ControlAll, 0), mask |-> from_bits(MaskAll, 0),
     status |-> from_bits(StatusAll, 0), oam_addr |-> 0, oam_data |-> 0,
     scroll |-> 0, addr |-> 0, data |-> 0, dma |-> 0]

set_status(status, flag, val) ==
    IF val THEN BitOr(status, flag) ELSE BitAnd(status, BitNot8(flag))

\* variant: clearing a flag keeps that flag only
set_control_keep(ctrl, flag, val) ==
    IF val THEN BitOr(ctrl, flag) ELSE BitAnd(ctrl, flag)

set_control(ctrl, flag, val) ==
    IF val THEN BitOr(ctrl, flag) ELSE BitAnd(ctrl, BitNot8(flag))

get_status(status, flag) == BitAnd(status, flag) = flag

get_control(ctrl, flag) == BitAnd(ctrl, flag) = flag

(***************************************************************************)
(* PPU-side memory (trait PPUMemory) and the colour table                  *)
(***************************************************************************)
readb_ppu(m, a) == IF a \in DOMAIN m THEN m[a] ELSE 0

writeb_ppu(m, a, d) == IF a \in DOMAIN m THEN [m EXCEPT ![a] = d] ELSE m

\* PALETTE[&i]: the colour of index i
PALETTE(i) == [color |-> i]

\* ImageBuffer::from_pixel and put_pixel
from_pixel(w, h, c) == [width |-> w, height |-> h, fill |-> c, px |-> <<>>]

put_pixel(img, x, y, c) == [img EXCEPT !.px = (<<x, y>> :> c) @@ @]

(***************************************************************************)
(* PPU::new                                                                *)
(***************************************************************************)
Poison == <<-1>>

NoOp(name) == [op |-> name, addr |-> 0, data |-> 0]

PPU_new ==
    /\ regs = Registers_new
    /\ cycle = 0
    /\ scanline = 0
    /\ frame_ready = FALSE
    /\ nmi = FALSE
    /\ canvas_main = from_pixel(256, 240, PALETTE(0))
    /\ pattern_tables = [t \in 0..1 |-> from_pixel(128, 128, PALETTE(0))]
    /\ palettes = [p \in 0..7 |-> from_pixel(4, 1, PALETTE(0))]
    /\ addr_latch_set = FALSE
    /\ data_buffer = 0
    /\ panicked = FALSE
    /\ ret = 0
    /\ last = NoOp("new")
    /\ clocks = 0
    /\ run = <<>>

\* NESMemory::new: zeroed ram, no cartridge
NoCartridge == [none |-> TRUE]

\* RefCell::new: no Ref and no RefMut alive
Unborrowed == [readers |-> 0, writer |-> FALSE]

NESMemory_new == ram = <<>> /\ cartridge = NoCartridge /\ borrow = Unborrowed

\* no word operation in progress; done, addr and data tell the last one completed
NoPending == [op |-> "idle", done |-> "none", addr |-> 0, data |-> 0]

NoHeader == [none |-> TRUE]

NoCall == [fn |-> "none"]

\* the bus and the values outside the PPU before any operation
Rest_new ==
    /\ NESMemory_new
    /\ bus_last = NoOp("new")
    /\ bus_ret = 0
    /\ pending = NoPending
    /\ word_ret = 0
    /\ header = NoHeader
    /\ call = NoCall

\* a new PPU over a PPU-side memory with some content
Init == PPU_new /\ Rest_new /\ mem \in [MemAddrs -> RomBytes]

\* a new PPU over a zeroed PPU-side memory
InitBlank == PPU_new /\ Rest_new /\ mem = [a \in MemAddrs |-> 0]

(***************************************************************************)
(* PPU::reset                                                              *)
(***************************************************************************)
\* variant: reset also clears the latch and the nmi flag
reset_more ==
    /\ ~panicked
    /\ regs' = Registers_new
    /\ addr_latch_set' = FALSE
    /\ nmi' = FALSE
    /\ last' = NoOp("reset")
    /\ run' = Poison
    /\ UNCHANGED <<cycle, scanline, frame_ready, targets, data_buffer, mem,
                   panicked, ret, clocks>>

reset ==
    /\ ~panicked
    /\ regs' = Registers_new
    /\ last' = NoOp("reset")
    /\ run' = Poison
    /\ UNCHANGED <<timing, targets, addr_latch_set, data_buffer, mem,
                   panicked, ret, clocks>>

(***************************************************************************)
(* PPU::clock                                                              *)
(***************************************************************************)
\* variant: the line ends one cycle early
clock_cycle_early(c) == IF c >= 339 THEN 0 ELSE c + 1

clock_cycle(c) == IF c = 340 THEN 0 ELSE c + 1

\* variant: the scanline is not wrapped at the end of the frame
clock_scanline_nowrap(c, s) == IF c = 340 THEN s + 1 ELSE s

clock_scanline(c, s) ==
    IF c = 340 THEN (IF s = 261 THEN 0 ELSE s + 1) ELSE s

\* variant: frame_ready is true for the wrapping call only
clock_frame_ready_pulse(c, s, f) == c = 340 /\ s = 261

clock_frame_ready(c, s, f) == IF c = 340 /\ s = 261 THEN TRUE ELSE f

\* variant: vblank is set on cycle 0 of scanline 241
clock_status_cycle0(c, s, status) ==
    IF s = 241 /\ c = 0 THEN set_status(status, VERTICAL_BLANK, TRUE)
    ELSE IF s = 261 /\ c = 1 THEN set_status(status, VERTICAL_BLANK, FALSE)
    ELSE status

\* variant: vblank is never cleared by the clock
clock_status_noclear(c, s, status) ==
    IF s = 241 /\ c = 1 THEN set_status(status, VERTICAL_BLANK, TRUE)
    ELSE status

\* variant: every status flag is set at the start of vblank
clock_status_allflags(c, s, status) ==
    IF s = 241 /\ c = 1 THEN set_status(status, StatusAll, TRUE)
    ELSE IF s = 261 /\ c = 1 THEN set_status(status, VERTICAL_BLANK, FALSE)
    ELSE status

\* the status register after the set/clear vblank step at position (c, s)
clock_status(c, s, status) ==
    IF s = 241 /\ c = 1 THEN set_status(status, VERTICAL_BLANK, TRUE)
    ELSE IF s = 261 /\ c = 1 THEN set_status(status, VERTICAL_BLANK, FALSE)
    ELSE status

\* variant: nmi is raised whatever the control register holds
clock_nmi_always(c, s, ctrl, n) == IF s = 241 /\ c = 1 THEN TRUE ELSE n

clock_nmi(c, s, ctrl, n) ==
    IF s = 241 /\ c = 1 /\ get_control(ctrl, ENABLE_NMI) THEN TRUE ELSE n

clock_step ==
    /\ ~panicked
    /\ cycle' = clock_cycle(cycle)
    /\ scanline' = clock_scanline(cycle, scanline)
    /\ frame_ready' = clock_frame_ready(cycle, scanline, frame_ready)
    /\ regs' = [regs EXCEPT !.status = clock_status(cycle', scanline', @)]
    /\ nmi' = clock_nmi(cycle', scanline', regs.ctrl, nmi)
    /\ last' = NoOp("clock")
    /\ UNCHANGED <<targets, addr_latch_set, data_buffer, mem, panicked, ret, run>>

clock == clock_step /\ UNCHANGED clocks

\* clock, with the call counted
clock_counted == clocks < MaxClocks /\ clock_step /\ clocks' = clocks + 1

(***************************************************************************)
(* PPU::readb                                                              *)
(***************************************************************************)
\* 0x2002: value returned, status afterwards
readb_status_ret(status) == status

\* variant: the read leaves the vertical-blank bit
readb_status_after_keep(status) == status

readb_status_after(status) == set_status(status, VERTICAL_BLANK, FALSE)

\* 0x2007: the buffer is refilled from mem.readb_ppu(addr), addr being the
\* register address handed to readb
readb_data_buffer(m, a) == readb_ppu(m, a)

readb_data_ret(a, old, new) == IF a > 16128 THEN new ELSE old

readb(a) ==
    /\ ~panicked
    /\ CASE a = 8194 ->
              /\ ret' = readb_status_ret(regs.status)
              /\ regs' = [regs EXCEPT !.status = readb_status_after(@)]
              /\ addr_latch_set' = FALSE
              /\ run' = <<>>
              /\ UNCHANGED data_buffer
         [] a = 8196 ->
              /\ ret' = 0
              /\ UNCHANGED <<regs, addr_latch_set, data_buffer, run>>
         [] a = 8199 ->
              /\ data_buffer' = readb_data_buffer(mem, a)
              /\ ret' = readb_data_ret(a, data_buffer, data_buffer')
              /\ UNCHANGED <<regs, addr_latch_set, run>>
         [] OTHER ->
              /\ ret' = 0
              /\ UNCHANGED <<regs, addr_latch_set, data_buffer, run>>
    /\ last' = [op |-> "readb", addr |-> a, data |-> 0]
    /\ UNCHANGED <<timing, targets, mem, panicked, clocks>>

(***************************************************************************)
(* PPU::writeb                                                             *)
(***************************************************************************)
\* variant: the high-byte write drops the low byte
writeb_addr_droplow(addr, latch, data) ==
    IF ~latch THEN data * 256
    ELSE BitOr(BitAnd(addr, 65280), data)

\* 0x2006: the VRAM address after a write of data
writeb_addr(addr, latch, data) ==
    IF ~latch THEN BitOr(BitAnd(addr, 255), data * 256)
    ELSE BitOr(BitAnd(addr, 65280), data)

\* 0x2007: the increment of the VRAM address
writeb_increment(ctrl) == IF get_control(ctrl, INCREMENT_MODE) THEN 32 ELSE 1

\* history: the run of 0x2006 writes
run_append(r, data) ==
    IF r = Poison \/ Len(r) >= MaxRun THEN Poison ELSE Append(r, data)

writeb(a, data) ==
    /\ ~panicked
    /\ CASE a = 8192 ->
              /\ IF from_bits(ControlAll, data) = None
                 THEN panicked' = TRUE /\ UNCHANGED regs
                 ELSE /\ regs' = [regs EXCEPT !.ctrl = from_bits(ControlAll, data)]
                      /\ UNCHANGED panicked
              /\ UNCHANGED <<addr_latch_set, mem, run>>
         [] a = 8193 ->
              /\ IF from_bits(MaskAll, data) = None
                 THEN panicked' = TRUE /\ UNCHANGED regs
                 ELSE /\ regs' = [regs EXCEPT !.mask = from_bits(MaskAll, data)]
                      /\ UNCHANGED panicked
              /\ UNCHANGED <<addr_latch_set, mem, run>>
         [] a = 8198 ->
              /\ regs' = [regs EXCEPT !.addr = writeb_addr(@, addr_latch_set, data)]
              /\ addr_latch_set' = ~addr_latch_set
              /\ run' = run_append(run, data)
              /\ UNCHANGED <<mem, panicked>>
         [] a = 8199 ->
              /\ mem' = writeb_ppu(mem, regs.addr, data)
              /\ run' = Poison
              /\ LET sum == regs.addr + writeb_increment(regs.ctrl)
                 IN  IF sum <= 65535
                     THEN regs' = [regs EXCEPT !.addr = sum] /\ UNCHANGED panicked
                     ELSE \* u16 overflow of +=: wraps without overflow checks,
                          \* panics with them
                          \/ regs' = [regs EXCEPT !.addr = sum % 65536]
                             /\ UNCHANGED panicked
                          \/ panicked' = TRUE /\ UNCHANGED regs
              /\ UNCHANGED addr_latch_set
         [] OTHER ->
              UNCHANGED <<regs, addr_latch_set, mem, panicked, run>>
    /\ last' = [op |-> "writeb", addr |-> a, data |-> data]
    /\ UNCHANGED <<timing, targets, data_buffer, ret, clocks>>

(***************************************************************************)
(* PPU::get_color_from_ram, PPU::get_palette                               *)
(***************************************************************************)
get_color_from_ram(m, palette_id, pixel) ==
    PALETTE(BitAnd(readb_ppu(m, 16128 + palette_id * 4 + pixel), 63))

RECURSIVE get_palette_loop(_, _, _, _)
get_palette_loop(img, m, palette_id, i) ==
    IF i = 4 THEN img
    ELSE get_palette_loop(
             put_pixel(img, i, 0, get_color_from_ram(m, palette_id, i)),
             m, palette_id, i + 1)

get_palette(palette_id) ==
    /\ ~panicked
    /\ palettes' = [palettes EXCEPT
                      ![palette_id] = get_palette_loop(@, mem, palette_id, 0)]
    /\ last' = [op |-> "get_palette", addr |-> palette_id, data |-> 0]
    /\ UNCHANGED <<regs, timing, canvas_main, pattern_tables, addr_latch_set,
                   data_buffer, mem, panicked, ret, clocks, run>>

(***************************************************************************)
(* PPU::get_pattern_table                                                  *)
(***************************************************************************)
\* the pixel value of loop iteration (x, y, row, col): tile_lsb and tile_msb
\* have been shifted right col times
tile_pixel(m, index, x, y, row, col) ==
    LET tile_offset_b == y * 256 + x * 16
        tile_addr == index * 4096 + tile_offset_b + row
        tile_lsb == readb_ppu(m, tile_addr) \div (2 ^ col)
        tile_msb == readb_ppu(m, tile_addr + 8) \div (2 ^ col)
    IN  BitAnd(tile_lsb, 1) + BitAnd(tile_msb, 1)

\* the pixels after the four loops: iteration (x, y, row, col) puts its colour
\* at (x * 8 + (7 - col), y * 8 + row), so every pixel of the 128 x 128 sprite
\* is put once, the pixel p by the iteration
\* (p[1] div 8, p[2] div 8, p[2] mod 8, 7 - p[1] mod 8)
get_pattern_table_loop(m, index, palette_id) ==
    [p \in (0..127) \X (0..127) |->
        get_color_from_ram(m, palette_id,
            tile_pixel(m, index, p[1] \div 8, p[2] \div 8, p[2] % 8,
                       7 - (p[1] % 8)))]

get_pattern_table(index, palette_id) ==
    /\ ~panicked
    /\ pattern_tables' =
          [pattern_tables EXCEPT
              ![index] = [@ EXCEPT
                  !.px = get_pattern_table_loop(mem, index, palette_id)]]
    /\ last' = [op |-> "get_pattern_table", addr |-> index, data |-> palette_id]
    /\ UNCHANGED <<regs, timing, canvas_main, palettes, addr_latch_set,
                   data_buffer, mem, panicked, ret, clocks, run>>

(***************************************************************************)
(* PPU::set_status and PPU::set_control as operations on the PPU           *)
(***************************************************************************)
PPU_set_status(flag, val) ==
    /\ ~panicked
    /\ regs' = [regs EXCEPT !.status = set_status(@, flag, val)]
    /\ last' = [op |-> "set_status", addr |-> flag, data |-> val]
    /\ UNCHANGED <<timing, targets, addr_latch_set, data_buffer, mem, panicked,
                   ret, clocks, run>>

PPU_set_control(flag, val) ==
    /\ ~panicked
    /\ regs' = [regs EXCEPT !.ctrl = set_control(@, flag, val)]
    /\ last' = [op |-> "set_control", addr |-> flag, data |-> val]
    /\ UNCHANGED <<timing, targets, addr_latch_set, data_buffer, mem, panicked,
                   ret, clocks, run>>

(***************************************************************************)
(* Mapper 0 and the Cartridge (src/src/nes/cartridge.rs)                   *)
(***************************************************************************)
\* a byte vector that is zero except at the offsets of its domain
vec_get(v, i) == IF i \in DOMAIN v THEN v[i] ELSE 0

vec_set(v, i, d) ==
    IF d = 0 THEN [j \in DOMAIN v \ {i} |-> v[j]] ELSE (i :> d) @@ v

\* Mapper0::new(prg_chunks, chr_chunks)
Mapper0_new(prg_chunks, chr_chunks) ==
    [prg_chunks |-> prg_chunks, chr_chunks |-> chr_chunks]

\* Mapper0: PRG space is 0x8000..0xFFFF, one 16 KiB bank is mirrored
map_read_addr(m, addr) ==
    IF addr >= 32768
    THEN BitAnd(addr, IF m.prg_chunks > 1 THEN 32767 ELSE 16383)
    ELSE None

map_write_addr(m, addr) == map_read_addr(m, addr)

\* Cartridge::dummy
Cartridge_dummy(mirror) ==
    [prg_rom |-> <<>>, prg_size |-> 16384, chr_rom |-> <<>>, chr_size |-> 8192,
     mapper |-> Mapper0_new(1, 1), mirror |-> mirror]

\* Cartridge::readb: Some(byte) or None
Cartridge_readb(c, addr) ==
    IF map_read_addr(c.mapper, addr) # None
    THEN vec_get(c.prg_rom, map_read_addr(c.mapper, addr))
    ELSE None

\* Cartridge::writeb: the cartridge after the write
Cartridge_writeb(c, addr, data) ==
    IF map_write_addr(c.mapper, addr) # None
    THEN [c EXCEPT !.prg_rom = vec_set(@, map_write_addr(c.mapper, addr), data)]
    ELSE c

(***************************************************************************)
(* The memory bus NESMemory (src/src/nes/memory.rs)                        *)
(***************************************************************************)
RAM_SIZE == 2048
RAM_ADDR_RANGE == <<0, 8191>>
RAM_PHYS_RANGE == <<0, 2047>>
PPU_ADDR_RANGE == <<8192, 16383>>
PPU_PHYS_RANGE == <<8192, 8199>>
CART_ADDR_RANGE == <<16416, 65535>>

in_range(r, addr) == r[1] <= addr /\ addr <= r[2]

\* variant: the ram index keeps one address bit too many
ram_index_wide(addr) == BitAnd(addr, 4095)

\* addr & RAM_PHYS_RANGE[1]
ram_index(addr) == BitAnd(addr, RAM_PHYS_RANGE[2])

\* variant: the register index drops the base of the register window
ppu_index_low(addr) == BitAnd(addr, 7)

\* addr & PPU_PHYS_RANGE[1]
ppu_index(addr) == BitAnd(addr, PPU_PHYS_RANGE[2])

\* variant: the generic response is the open-bus value 0xFF
bus_generic_ff == BitNot8(0)

\* the generic response of readb
bus_generic == 0

\* NESMemory::insert_cartridge
insert_cartridge(c) ==
    /\ ~panicked
    /\ cartridge' = c
    /\ bus_last' = NoOp("insert_cartridge")
    /\ UNCHANGED <<ppu, ram, bus_ret, pending, word_ret, header, call, borrow>>

\* NESMemory::readb, one byte access; the cartridge branch returns the answer of
\* Cartridge::readb as it is, None included
bus_read(addr) ==
    /\ ~panicked
    /\ IF cartridge # NoCartridge /\ in_range(CART_ADDR_RANGE, addr)
       THEN bus_ret' = Cartridge_readb(cartridge, addr) /\ UNCHANGED ppu
       ELSE IF in_range(RAM_ADDR_RANGE, addr)
       THEN bus_ret' = vec_get(ram, ram_index(addr)) /\ UNCHANGED ppu
       ELSE IF in_range(PPU_ADDR_RANGE, addr)
       THEN readb(ppu_index(addr)) /\ bus_ret' = ret'
       ELSE bus_ret' = bus_generic /\ UNCHANGED ppu
    /\ UNCHANGED <<ram, cartridge, header, call, borrow>>

\* NESMemory::writeb, one byte access
bus_write(addr, data) ==
    /\ ~panicked
    /\ cartridge' =
          IF cartridge # NoCartridge /\ in_range(CART_ADDR_RANGE, addr)
          THEN Cartridge_writeb(cartridge, addr, data)
          ELSE cartridge
    /\ ram' =
          IF in_range(RAM_ADDR_RANGE, addr)
          THEN vec_set(ram, ram_index(addr), data)
          ELSE ram
    /\ IF in_range(PPU_ADDR_RANGE, addr)
       THEN writeb(ppu_index(addr), data)
       ELSE UNCHANGED ppu
    /\ UNCHANGED <<bus_ret, header, call, borrow>>

NESMemory_readb(addr) ==
    /\ bus_read(addr)
    /\ bus_last' = [op |-> "readb", addr |-> addr, data |-> 0]
    /\ UNCHANGED <<pending, word_ret>>

NESMemory_writeb(addr, data) ==
    /\ bus_write(addr, data)
    /\ bus_last' = [op |-> "writeb", addr |-> addr, data |-> data]
    /\ UNCHANGED <<pending, word_ret>>

(***************************************************************************)
(* The shared PPU: self.ppu is an Rc<RefCell<PPU>>. A bus access routed to *)
(* the PPU takes a guard (borrow for readb, borrow_mut for writeb), makes  *)
(* the register access under it, and drops the guard when it returns.      *)
(***************************************************************************)
\* RefCell::borrow succeeds unless a RefMut is alive
can_borrow(b) == ~b.writer

\* RefCell::borrow_mut succeeds unless a Ref or a RefMut is alive
can_borrow_mut(b) == ~b.writer /\ b.readers = 0

\* let ppu = self.ppu.borrow() in readb, self.ppu.borrow_mut() in writeb
can_acquire(b, op) == IF op = "readb" THEN can_borrow(b) ELSE can_borrow_mut(b)

\* the borrow state while the guard of the bus operation is alive
acquired(b, op) ==
    IF op = "readb" THEN [b EXCEPT !.readers = @ + 1]
    ELSE [b EXCEPT !.writer = TRUE]

\* variant: the guard outlives the bus operation
released_late(b, op) == b

\* the guard goes out of scope at the return of the bus operation
released(b, op) ==
    IF op = "readb" THEN [b EXCEPT !.readers = @ - 1]
    ELSE [b EXCEPT !.writer = FALSE]

\* the test that routes a bus access to the PPU
routed_to_ppu(addr) == in_range(PPU_ADDR_RANGE, addr)

\* readb or writeb for an address routed to the PPU, up to and including the
\* borrow; a borrow that RefCell refuses panics
ppu_acquire(op, addr, data) ==
    /\ ~panicked
    /\ pending.op = "idle"
    /\ routed_to_ppu(addr)
    /\ IF can_acquire(borrow, op)
       THEN /\ borrow' = acquired(borrow, op)
            /\ pending' = [op |-> op, at |-> "held", addr |-> addr,
                           data |-> data]
            /\ UNCHANGED panicked
       ELSE /\ panicked' = TRUE
            /\ UNCHANGED <<borrow, pending>>
    /\ UNCHANGED <<regs, timing, targets, addr_latch_set, data_buffer, mem, ret,
                   last, clocks, run, ram, cartridge, bus_last, bus_ret,
                   word_ret, header, call>>

\* the register access made under the guard: ppu.readb(..) or ppu.writeb(..)
ppu_access ==
    /\ pending.op \in {"readb", "writeb"}
    /\ pending.at = "held"
    /\ IF pending.op = "readb"
       THEN /\ bus_read(pending.addr)
            /\ bus_last' = [op |-> "readb", addr |-> pending.addr, data |-> 0]
       ELSE /\ bus_write(pending.addr, pending.data)
            /\ bus_last' = [op |-> "writeb", addr |-> pending.addr,
                            data |-> pending.data]
    /\ pending' = [pending EXCEPT !.at = "accessed"]
    /\ UNCHANGED word_ret

\* the return of the bus operation
ppu_release ==
    /\ pending.op \in {"readb", "writeb"}
    /\ pending.at = "accessed"
    /\ borrow' = released(borrow, pending.op)
    /\ pending' = [op |-> "idle", done |-> pending.op, addr |-> pending.addr,
                   data |-> pending.data]
    /\ UNCHANGED <<ppu, ram, cartridge, bus_last, bus_ret, word_ret, header,
                   call>>

\* the driver that observes the interrupt: between two bus operations it
\* borrows the shared PPU and reads the nmi flag
sample_nmi ==
    /\ ~panicked
    /\ pending.op = "idle"
    /\ call' = [fn |-> "sample_nmi", arg |-> 0, ok |-> can_borrow(borrow),
                result |-> nmi]
    /\ panicked' = ~can_borrow(borrow)
    /\ UNCHANGED <<regs, timing, targets, addr_latch_set, data_buffer, mem, ret,
                   last, clocks, run, ram, cartridge, bus_last, bus_ret,
                   pending, word_ret, header, borrow>>

(***************************************************************************)
(* Memory::readw and Memory::writew, each two byte accesses                *)
(***************************************************************************)
\* variant: the first byte read becomes the high byte
word_of_swapped(lo, hi) == BitOr((lo * 256) % 65536, hi)

\* (hi as Word) << 8 | lo as Word
word_of(lo, hi) == BitOr((hi * 256) % 65536, lo)

\* data as Byte
low_byte(data) == data % 256

\* (data >> 8) as Byte
high_byte(data) == (data \div 256) % 256

\* the word operation completed last
completed(p) == <<p.done, p.addr, p.data>>

\* addr + 1 leaves the 16-bit range: the operation aborts in a build with
\* overflow checks
word_abort ==
    /\ pending.addr + 1 > 65535
    /\ panicked' = TRUE
    /\ pending' = [op |-> "idle", done |-> "panic", addr |-> pending.addr,
                   data |-> 0]
    /\ UNCHANGED <<regs, timing, targets, addr_latch_set, data_buffer, mem, ret,
                   last, clocks, run, ram, cartridge, bus_last, bus_ret,
                   word_ret, header, call, borrow>>

\* readw up to and including self.readb(addr)
readw_lo(addr) ==
    /\ pending.op = "idle"
    /\ bus_read(addr)
    /\ bus_last' = [op |-> "readb", addr |-> addr, data |-> 0]
    /\ pending' = [op |-> "readw", addr |-> addr, lo |-> bus_ret',
                   after |-> completed(pending)]
    /\ UNCHANGED word_ret

\* readw from self.readb(addr+1) to the return
readw_hi ==
    /\ pending.op = "readw"
    /\ \/ /\ bus_read((pending.addr + 1) % 65536)
          /\ bus_last' = [op |-> "readb", addr |-> (pending.addr + 1) % 65536,
                          data |-> 0]
          /\ word_ret' = word_of(pending.lo, bus_ret')
          /\ pending' = [op |-> "idle", done |-> "readw",
                         addr |-> pending.addr, data |-> word_ret']
       \/ word_abort

\* writew up to and including self.writeb(addr, data as Byte)
writew_lo(addr, data) ==
    /\ pending.op = "idle"
    /\ bus_write(addr, low_byte(data))
    /\ bus_last' = [op |-> "writeb", addr |-> addr, data |-> low_byte(data)]
    /\ pending' = [op |-> "writew", addr |-> addr, data |-> data]
    /\ UNCHANGED word_ret

\* writew from self.writeb(addr + 1, (data >> 8) as Byte) to the return
writew_hi ==
    /\ pending.op = "writew"
    /\ \/ /\ bus_write((pending.addr + 1) % 65536, high_byte(pending.data))
          /\ bus_last' = [op |-> "writeb", addr |-> (pending.addr + 1) % 65536,
                          data |-> high_byte(pending.data)]
          /\ pending' = [op |-> "idle", done |-> "writew",
                         addr |-> pending.addr, data |-> pending.data]
          /\ UNCHANGED word_ret
       \/ word_abort

(***************************************************************************)
(* The instruction table (src/src/nes/cpu/instructions.rs)                 *)
(***************************************************************************)
\* variant: the two cycle counts change places
Instruction_swapped(opcode, addr_mode, operation, cycles) ==
    [opcode |-> opcode, addr_mode |-> addr_mode, operation |-> operation,
     cycles |-> <<cycles[2], cycles[1]>>]

\* an Instruction value; AddrMode and Operation are written as their names
Instruction(opcode, addr_mode, operation, cycles) ==
    [opcode |-> opcode, addr_mode |-> addr_mode, operation |-> operation,
     cycles |-> cycles]

\* the phf_map, one pair <<key, Instruction>> per entry, in the order of the source
INSTRUCTION_SET == {
    <<0, Instruction(0, "IMP", "BRK", <<7, 0>>)>>,
    <<1, Instruction(1, "IZX", "ORA", <<6, 0>>)>>,
    <<2, Instruction(2, "IMP", "KIL", <<1, 0>>)>>,
    <<3, Instruction(3, "IZX", "SLO", <<8, 0>>)>>,
    <<4, Instruction(4, "ZP0", "NOP", <<3, 0>>)>>,
    <<5, Instruction(5, "ZP0", "ORA", <<3, 0>>)>>,
    <<6, Instruction(6, "ZP0", "ASL", <<5, 0>>)>>,
    <<7, Instruction(7, "ZP0", "SLO", <<5, 0>>)>>,
    <<8, Instruction(8, "IMP", "PHP", <<3, 0>>)>>,
    <<9, Instruction(9, "IMM", "ORA", <<2, 0>>)>>,
    <<10, Instruction(10, "IMP", "ASL", <<2, 0>>)>>,
    <<11, Instruction(11, "IMM", "ANC", <<2, 0>>)>>,
    <<12, Instruction(12, "ABS", "NOP", <<4, 0>>)>>,
    <<13, Instruction(13, "ABS", "ORA", <<4, 0>>)>>,
    <<14, Instruction(14, "ABS", "ASL", <<6, 0>>)>>,
    <<15, Instruction(15, "ABS", "SLO", <<6, 0>>)>>,
    <<16, Instruction(16, "REL", "BPL", <<2, 1>>)>>,
    <<17, Instruction(17, "IZY", "ORA", <<5, 1>>)>>,
    <<18, Instruction(18, "IMP", "KIL", <<1, 0>>)>>,
    <<19, Instruction(19, "IZY", "SLO", <<8, 0>>)>>,
    <<20, Instruction(20, "ZPX", "NOP", <<4, 0>>)>>,
    <<21, Instruction(21, "ZPX", "ORA", <<4, 0>>)>>,
    <<22, Instruction(22, "ZPX", "ASL", <<6, 0>>)>>,
    <<23, Instruction(23, "ZPX", "SLO", <<6, 0>>)>>,
    <<24, Instruction(24, "IMP", "CLC", <<2, 0>>)>>,
    <<25, Instruction(25, "ABY", "ORA", <<4, 1>>)>>,
    <<26, Instruction(26, "IMP", "NOP", <<2, 0>>)>>,
    <<27, Instruction(27, "ABY", "SLO", <<7, 0>>)>>,
    <<28, Instruction(28, "ABX", "NOP", <<4, 1>>)>>,
    <<29, Instruction(29, "ABX", "ORA", <<4, 1>>)>>,
    <<30, Instruction(30, "ABX", "ASL", <<7, 0>>)>>,
    <<31, Instruction(31, "ABX", "SLO", <<7, 0>>)>>,
    <<32, Instruction(32, "ABS", "JSR", <<6, 0>>)>>,
    <<33, Instruction(33, "IZX", "AND", <<6, 0>>)>>,
    <<34, Instruction(34, "IMP", "KIL", <<1, 0>>)>>,
    <<35, Instruction(35, "IZX", "RLA", <<8, 0>>)>>,
    <<36, Instruction(36, "ZP0", "BIT", <<3, 0>>)>>,
    <<37, Instruction(37, "ZP0", "AND", <<3, 0>>)>>,
    <<38, Instruction(38, "ZP0", "ROL", <<5, 0>>)>>,
    <<39, Instruction(39, "ZP0", "RLA", <<5, 0>>)>>,
    <<40, Instruction(40, "IMP", "PLP", <<4, 0>>)>>,
    <<41, Instruction(41, "IMM", "AND", <<2, 0>>)>>,
    <<42, Instruction(42, "IMP", "ROL", <<2, 0>>)>>,
    <<43, Instruction(43, "IMM", "ANC", <<2, 0>>)>>,
    <<44, Instruction(44, "ABS", "BIT", <<4, 0>>)>>,
    <<45, Instruction(45, "ABS", "AND", <<4, 0>>)>>,
    <<46, Instruction(46, "ABS", "ROL", <<6, 0>>)>>,
    <<47, Instruction(47, "ABS", "RLA", <<6, 0>>)>>,
    <<48, Instruction(48, "REL", "BMI", <<2, 1>>)>>,
    <<49, Instruction(49, "IZY", "AND", <<5, 1>>)>>,
    <<50, Instruction(50, "IMP", "KIL", <<1, 0>>)>>,
    <<51, Instruction(51, "IZY", "RLA", <<8, 0>>)>>,
    <<52, Instruction(52, "ZPX", "NOP", <<4, 0>>)>>,
    <<53, Instruction(53, "ZPX", "AND", <<4, 0>>)>>,
    <<54, Instruction(54, "ZPX", "ROL", <<6, 0>>)>>,
    <<55, Instruction(55, "ZPX", "RLA", <<6, 0>>)>>,
    <<56, Instruction(56, "IMP", "SEC", <<2, 0>>)>>,
    <<57, Instruction(57, "ABY", "AND", <<4, 1>>)>>,
    <<58, Instruction(58, "IMP", "NOP", <<2, 0>>)>>,
    <<59, Instruction(59, "ABY", "RLA", <<7, 0>>)>>,
    <<60, Instruction(60, "ABX", "NOP", <<4, 1>>)>>,
    <<61, Instruction(61, "ABX", "AND", <<4, 1>>)>>,
    <<62, Instruction(62, "ABX", "ROL", <<7, 0>>)>>,
    <<63, Instruction(63, "ABX", "RLA", <<7, 0>>)>>,
    <<64, Instruction(64, "IMP", "RTI", <<6, 0>>)>>,
    <<65, Instruction(65, "IZX", "EOR", <<6, 0>>)>>,
    <<66, Instruction(66, "IMP", "KIL", <<1, 0>>)>>,
    <<67, Instruction(67, "IZX", "SRE", <<8, 0>>)>>,
    <<68, Instruction(68, "ZP0", "NOP", <<3, 0>>)>>,
    <<69, Instruction(69, "ZP0", "EOR", <<3, 0>>)>>,
    <<70, Instruction(70, "ZP0", "LSR", <<5, 0>>)>>,
    <<71, Instruction(71, "ZP0", "SRE", <<5, 0>>)>>,
    <<72, Instruction(72, "IMP", "PHA", <<3, 0>>)>>,
    <<73, Instruction(73, "IMM", "EOR", <<2, 0>>)>>,
    <<74, Instruction(74, "IMP", "LSR", <<2, 0>>)>>,
    <<75, Instruction(75, "IMM", "ALR", <<2, 0>>)>>,
    <<76, Instruction(76, "ABS", "JMP", <<3, 0>>)>>,
    <<77, Instruction(77, "ABS", "EOR", <<4, 0>>)>>,
    <<78, Instruction(78, "ABS", "LSR", <<6, 0>>)>>,
    <<79, Instruction(79, "ABS", "SRE", <<6, 0>>)>>,
    <<80, Instruction(80, "REL", "BVC", <<2, 1>>)>>,
    <<81, Instruction(81, "IZY", "EOR", <<5, 1>>)>>,
    <<82, Instruction(82, "IMP", "KIL", <<1, 0>>)>>,
    <<83, Instruction(83, "IZY", "SRE", <<8, 0>>)>>,
    <<84, Instruction(84, "ZPX", "NOP", <<4, 0>>)>>,
    <<85, Instruction(85, "ZPX", "EOR", <<4, 0>>)>>,
    <<86, Instruction(86, "ZPX", "LSR", <<6, 0>>)>>,
    <<87, Instruction(87, "ZPX", "SRE", <<6, 0>>)>>,
    <<88, Instruction(88, "IMP", "CLI", <<2, 0>>)>>,
    <<89, Instruction(89, "ABY", "EOR", <<4, 1>>)>>,
    <<90, Instruction(90, "IMP", "NOP", <<2, 0>>)>>,
    <<91, Instruction(91, "ABY", "SRE", <<7, 0>>)>>,
    <<92, Instruction(92, "ABX", "NOP", <<4, 1>>)>>,
    <<93, Instruction(93, "ABX", "EOR", <<4, 1>>)>>,
    <<94, Instruction(94, "ABX", "LSR", <<7, 0>>)>>,
    <<95, Instruction(95, "ABX", "SRE", <<7, 0>>)>>,
    <<96, Instruction(96, "IMP", "RTS", <<6, 0>>)>>,
    <<97, Instruction(97, "IZX", "ADC", <<6, 0>>)>>,
    <<98, Instruction(98, "IMP", "KIL", <<1, 0>>)>>,
    <<99, Instruction(99, "IZX", "RRA", <<8, 0>>)>>,
    <<100, Instruction(100, "ZP0", "NOP", <<3, 0>>)>>,
    <<101, Instruction(101, "ZP0", "ADC", <<3, 0>>)>>,
    <<102, Instruction(102, "ZP0", "ROR", <<5, 0>>)>>,
    <<103, Instruction(103, "ZP0", "RRA", <<5, 0>>)>>,
    <<104, Instruction(104, "IMP", "PLA", <<4, 0>>)>>,
    <<105, Instruction(105, "IMM", "ADC", <<2, 0>>)>>,
    <<106, Instruction(106, "IMP", "ROR", <<2, 0>>)>>,
    <<107, Instruction(107, "IMM", "ARR", <<2, 0>>)>>,
    <<108, Instruction(108, "IND", "JMP", <<5, 0>>)>>,
    <<109, Instruction(109, "ABS", "ADC", <<4, 0>>)>>,
    <<110, Instruction(110, "ABS", "ROR", <<6, 0>>)>>,
    <<111, Instruction(111, "ABS", "RRA", <<6, 0>>)>>,
    <<112, Instruction(112, "REL", "BVS", <<2, 1>>)>>,
    <<113, Instruction(113, "IZY", "ADC", <<5, 1>>)>>,
    <<114, Instruction(114, "IMP", "KIL", <<1, 0>>)>>,
    <<115, Instruction(115, "IZY", "RRA", <<8, 0>>)>>,
    <<116, Instruction(116, "ZPX", "NOP", <<4, 0>>)>>,
    <<117, Instruction(117, "ZPX", "ADC", <<4, 0>>)>>,
    <<118, Instruction(118, "ZPX", "ROR", <<6, 0>>)>>,
    <<119, Instruction(119, "ZPX", "RRA", <<6, 0>>)>>,
    <<120, Instruction(120, "IMP", "SEI", <<2, 0>>)>>,
    <<121, Instruction(121, "ABY", "ADC", <<4, 1>>)>>,
    <<122, Instruction(122, "IMP", "NOP", <<2, 0>>)>>,
    <<123, Instruction(123, "ABY", "RRA", <<7, 0>>)>>,
    <<124, Instruction(124, "ABX", "NOP", <<4, 1>>)>>,
    <<125, Instruction(125, "ABX", "ADC", <<4, 1>>)>>,
    <<126, Instruction(126, "ABX", "ROR", <<7, 0>>)>>,
    <<127, Instruction(127, "ABX", "RRA", <<7, 0>>)>>,
    <<128, Instruction(128, "IMM", "NOP", <<2, 0>>)>>,
    <<129, Instruction(129, "IZX", "STA", <<6, 0>>)>>,
    <<130, Instruction(130, "IMM", "NOP", <<2, 0>>)>>,
    <<131, Instruction(131, "IZX", "SAX", <<6, 0>>)>>,
    <<132, Instruction(132, "ZP0", "STY", <<3, 0>>)>>,
    <<133, Instruction(133, "ZP0", "STA", <<3, 0>>)>>,
    <<134, Instruction(134, "ZP0", "STX", <<3, 0>>)>>,
    <<135, Instruction(135, "ZP0", "SAX", <<3, 0>>)>>,
    <<136, Instruction(136, "IMP", "DEY", <<2, 0>>)>>,
    <<137, Instruction(137, "IMM", "NOP", <<2, 0>>)>>,
    <<138, Instruction(138, "IMP", "TXA", <<2, 0>>)>>,
    <<139, Instruction(139, "IMM", "XAA", <<2, 0>>)>>,
    <<140, Instruction(140, "ABS", "STY", <<4, 0>>)>>,
    <<141, Instruction(141, "ABS", "STA", <<4, 0>>)>>,
    <<142, Instruction(142, "ABS", "STX", <<4, 0>>)>>,
    <<143, Instruction(143, "ABS", "SAX", <<4, 0>>)>>,
    <<144, Instruction(144, "REL", "BCC", <<2, 1>>)>>,
    <<145, Instruction(145, "IZY", "STA", <<6, 0>>)>>,
    <<146, Instruction(146, "IMP", "KIL", <<1, 0>>)>>,
    <<147, Instruction(147, "IZY", "AHX", <<6, 0>>)>>,
    <<148, Instruction(148, "ZPX", "STY", <<4, 0>>)>>,
    <<149, Instruction(149, "ZPX", "STA", <<4, 0>>)>>,
    <<150, Instruction(150, "ZPY", "STX", <<4, 0>>)>>,
    <<151, Instruction(151, "ZPY", "SAX", <<4, 0>>)>>,
    <<152, Instruction(152, "IMP", "TYA", <<2, 0>>)>>,
    <<153, Instruction(153, "ABY", "STA", <<5, 0>>)>>,
    <<154, Instruction(154, "IMP", "TXS", <<2, 0>>)>>,
    <<155, Instruction(155, "ABY", "TAS", <<5, 0>>)>>,
    <<156, Instruction(156, "ABX", "SHY", <<5, 0>>)>>,
    <<157, Instruction(157, "ABX", "STA", <<5, 0>>)>>,
    <<158, Instruction(158, "ABY", "SHX", <<5, 0>>)>>,
    <<159, Instruction(159, "ABY", "AHX", <<5, 0>>)>>,
    <<160, Instruction(160, "IMM", "LDY", <<2, 0>>)>>,
    <<161, Instruction(161, "IZX", "LDA", <<6, 0>>)>>,
    <<162, Instruction(162, "IMM", "LDX", <<2, 0>>)>>,
    <<163, Instruction(163, "IZX", "LAX", <<6, 0>>)>>,
    <<164, Instruction(164, "ZP0", "LDY", <<3, 0>>)>>,
    <<165, Instruction(165, "ZP0", "LDA", <<3, 0>>)>>,
    <<166, Instruction(166, "ZP0", "LDX", <<3, 0>>)>>,
    <<167, Instruction(167, "ZP0", "LAX", <<3, 0>>)>>,
    <<168, Instruction(168, "IMP", "TAY", <<2, 0>>)>>,
    <<169, Instruction(169, "IMM", "LDA", <<2, 0>>)>>,
    <<170, Instruction(170, "IMP", "TAX", <<2, 0>>)>>,
    <<171, Instruction(171, "IMM", "LAX", <<2, 0>>)>>,
    <<172, Instruction(172, "ABS", "LDY", <<4, 0>>)>>,
    <<173, Instruction(173, "ABS", "LDA", <<4, 0>>)>>,
    <<174, Instruction(174, "ABS", "LDX", <<4, 0>>)>>,
    <<175, Instruction(175, "ABS", "LAX", <<4, 0>>)>>,
    <<176, Instruction(176, "REL", "BCS", <<2, 1>>)>>,
    <<177, Instruction(177, "IZY", "LDA", <<5, 1>>)>>,
    <<178, Instruction(178, "IMP", "KIL", <<1, 0>>)>>,
    <<179, Instruction(179, "IZY", "LAX", <<5, 1>>)>>,
    <<180, Instruction(180, "ZPX", "LDY", <<4, 0>>)>>,
    <<181, Instruction(181, "ZPX", "LDA", <<4, 0>>)>>,
    <<182, Instruction(182, "ZPY", "LDX", <<4, 0>>)>>,
    <<183, Instruction(183, "ZPY", "LAX", <<4, 0>>)>>,
    <<184, Instruction(184, "IMP", "CLV", <<2, 0>>)>>,
    <<185, Instruction(185, "ABY", "LDA", <<4, 1>>)>>,
    <<186, Instruction(186, "IMP", "TSX", <<2, 0>>)>>,
    <<187, Instruction(187, "ABY", "LAS", <<4, 1>>)>>,
    <<188, Instruction(188, "ABX", "LDY", <<4, 1>>)>>,
    <<189, Instruction(189, "ABX", "LDA", <<4, 1>>)>>,
    <<190, Instruction(190, "ABY", "LDX", <<4, 1>>)>>,
    <<191, Instruction(191, "ABY", "LAX", <<4, 1>>)>>,
    <<192, Instruction(192, "IMM", "CPY", <<2, 0>>)>>,
    <<193, Instruction(193, "IZX", "CMP", <<6, 0>>)>>,
    <<194, Instruction(194, "IMM", "NOP", <<2, 0>>)>>,
    <<195, Instruction(195, "IZX", "DCP", <<8, 0>>)>>,
    <<196, Instruction(196, "ZP0", "CPY", <<3, 0>>)>>,
    <<197, Instruction(197, "ZP0", "CMP", <<3, 0>>)>>,
    <<198, Instruction(198, "ZP0", "DEC", <<5, 0>>)>>,
    <<199, Instruction(199, "ZP0", "DCP", <<5, 0>>)>>,
    <<200, Instruction(200, "IMP", "INY", <<2, 0>>)>>,
    <<201, Instruction(201, "IMM", "CMP", <<2, 0>>)>>,
    <<202, Instruction(202, "IMP", "DEX", <<2, 0>>)>>,
    <<203, Instruction(203, "IMM", "AXS", <<1, 0>>)>>,
    <<204, Instruction(204, "ABS", "CPY", <<4, 0>>)>>,
    <<205, Instruction(205, "ABS", "CMP", <<4, 0>>)>>,
    <<206, Instruction(206, "ABS", "DEC", <<6, 0>>)>>,
    <<207, Instruction(207, "ABS", "DCP", <<6, 0>>)>>,
    <<208, Instruction(208, "REL", "BNE", <<2, 1>>)>>,
    <<209, Instruction(209, "IZY", "CMP", <<5, 1>>)>>,
    <<210, Instruction(210, "IMP", "KIL", <<1, 0>>)>>,
    <<211, Instruction(211, "IZY", "DCP", <<8, 0>>)>>,
    <<212, Instruction(212, "ZPX", "NOP", <<4, 0>>)>>,
    <<213, Instruction(213, "ZPX", "CMP", <<4, 0>>)>>,
    <<214, Instruction(214, "ZPX", "DEC", <<6, 0>>)>>,
    <<215, Instruction(215, "ZPX", "DCP", <<6, 1>>)>>,
    <<216, Instruction(216, "IMP", "CLD", <<2, 0>>)>>,
    <<217, Instruction(217, "ABY", "CMP", <<4, 0>>)>>,
    <<218, Instruction(218, "IMP", "NOP", <<2, 0>>)>>,
    <<219, Instruction(219, "ABY", "DCP", <<7, 0>>)>>,
    <<220, Instruction(220, "ABX", "NOP", <<4, 1>>)>>,
    <<221, Instruction(221, "ABX", "CMP", <<4, 1>>)>>,
    <<222, Instruction(222, "ABX", "DEC", <<7, 0>>)>>,
    <<223, Instruction(223, "ABX", "DCP", <<7, 0>>)>>,
    <<224, Instruction(224, "IMM", "CPX", <<2, 0>>)>>,
    <<225, Instruction(225, "IZX", "SBC", <<6, 0>>)>>,
    <<226, Instruction(226, "IMM", "NOP", <<2, 0>>)>>,
    <<227, Instruction(227, "IZX", "ISB", <<8, 0>>)>>,
    <<228, Instruction(228, "ZP0", "CPX", <<3, 0>>)>>,
    <<229, Instruction(229, "ZP0", "SBC", <<3, 0>>)>>,
    <<230, Instruction(230, "ZP0", "INC", <<5, 0>>)>>,
    <<231, Instruction(231, "ZP0", "ISB", <<5, 0>>)>>,
    <<232, Instruction(232, "IMP", "INX", <<2, 0>>)>>,
    <<233, Instruction(233, "IMM", "SBC", <<2, 0>>)>>,
    <<234, Instruction(234, "IMP", "NOP", <<2, 0>>)>>,
    <<235, Instruction(235, "IMM", "SBC", <<2, 0>>)>>,
    <<236, Instruction(236, "ABS", "CPX", <<4, 0>>)>>,
    <<237, Instruction(237, "ABS", "SBC", <<4, 0>>)>>,
    <<238, Instruction(238, "ABS", "INC", <<6, 0>>)>>,
    <<239, Instruction(239, "ABS", "ISB", <<6, 0>>)>>,
    <<240, Instruction(240, "REL", "BEQ", <<2, 1>>)>>,
    <<241, Instruction(241, "IZY", "SBC", <<5, 1>>)>>,
    <<242, Instruction(242, "IMP", "KIL", <<1, 0>>)>>,
    <<243, Instruction(243, "IZY", "ISB", <<8, 0>>)>>,
    <<244, Instruction(244, "ZPX", "NOP", <<4, 0>>)>>,
    <<245, Instruction(245, "ZPX", "SBC", <<4, 0>>)>>,
    <<246, Instruction(246, "ZPX", "INC", <<6, 0>>)>>,
    <<247, Instruction(247, "ZPX", "ISB", <<6, 0>>)>>,
    <<248, Instruction(248, "IMP", "SED", <<2, 0>>)>>,
    <<249, Instruction(249, "ABY", "SBC", <<4, 1>>)>>,
    <<250, Instruction(250, "IMP", "NOP", <<2, 0>>)>>,
    <<251, Instruction(251, "ABY", "ISB", <<7, 0>>)>>,
    <<252, Instruction(252, "ABX", "NOP", <<4, 1>>)>>,
    <<253, Instruction(253, "ABX", "SBC", <<4, 1>>)>>,
    <<254, Instruction(254, "ABX", "INC", <<7, 0>>)>>,
    <<255, Instruction(255, "ABX", "ISB", <<7, 0>>)>>
}

\* variant: the table is consulted for the opcodes below 0xFF only
INSTRUCTION_SET_get_below(opcode) ==
    {e \in INSTRUCTION_SET : e[1] = opcode /\ opcode < 255}

\* INSTRUCTION_SET.get(&opcode): the entries stored under the key
INSTRUCTION_SET_get(opcode) == {e \in INSTRUCTION_SET : e[1] = opcode}

\* Instruction::decode_op; expect panics when the key has no entry
decode_op(opcode) ==
    /\ ~panicked
    /\ IF INSTRUCTION_SET_get(opcode) = {}
       THEN /\ panicked' = TRUE
            /\ call' = [fn |-> "decode_op", arg |-> opcode, ok |-> FALSE]
       ELSE /\ \E e \in INSTRUCTION_SET_get(opcode) :
                  call' = [fn |-> "decode_op", arg |-> opcode, ok |-> TRUE,
                           result |-> e[2]]
            /\ UNCHANGED panicked
    /\ UNCHANGED <<regs, timing, targets, addr_latch_set, data_buffer, mem, ret,
                   last, clocks, run, ram, cartridge, bus_last, bus_ret,
                   pending, word_ret, header, borrow>>

(***************************************************************************)
(* Header (src/src/nes/cartridge.rs)                                       *)
(***************************************************************************)
Header(prg_rom_chunks, chr_rom_chunks, mapper1, mapper2, prg_ram_size, tv1, tv2) ==
    [prg_rom_chunks |-> prg_rom_chunks, chr_rom_chunks |-> chr_rom_chunks,
     mapper1 |-> mapper1, mapper2 |-> mapper2, prg_ram_size |-> prg_ram_size,
     tv1 |-> tv1, tv2 |-> tv2]

\* variant: the trainer flag is taken from bit 1
has_trainer_bit1(h) == BitAnd(h.mapper1, 2) # 0

\* Header::has_trainer: self.mapper1 & (1 << 2) != 0
has_trainer(h) == BitAnd(h.mapper1, 4) # 0

\* variant: the low part is the low nibble of mapper1
get_mapper_id_low_nibble(h) ==
    LET hi == ((h.mapper2 \div 16) * 16) % 256
        lo == h.mapper1 % 16
    IN  BitOr(hi, lo)

\* Header::get_mapper_id: shifts on a Byte
get_mapper_id(h) ==
    LET hi == ((h.mapper2 \div 16) * 16) % 256
        lo == h.mapper1 \div 16
    IN  BitOr(hi, lo)

\* Header::get_mirror_mode
get_mirror_mode(h) ==
    IF BitAnd(h.mapper1, 1) = 0 THEN "HORIZONTAL" ELSE "VERTICAL"

\* a call of a Header method on the header at hand
Header_call(name, result) ==
    /\ header # NoHeader
    /\ call' = [fn |-> name, result |-> result]
    /\ UNCHANGED <<ppu, ram, cartridge, bus_last, bus_ret, pending, word_ret,
                   header, borrow>>

(***************************************************************************)
(* Cartridge::new: loading a ROM container from a file                     *)
(***************************************************************************)
\* a file: whether it can be opened, its length and its bytes by offset (the
\* bytes that are zero are left out)
File(exists, len, bytes) ==
    [exists |-> exists, len |-> len,
     bytes |-> [o \in {p \in DOMAIN bytes : p < len /\ bytes[p] # 0} |-> bytes[o]]]

\* read_exact of n bytes at offset pos: an empty read succeeds anywhere, any
\* other read needs all its bytes before the end of the file
read_exact_ok(f, pos, n) == n = 0 \/ pos + n <= f.len

\* the bytes read_exact delivers, as a vector indexed from 0
read_exact(f, pos, n) ==
    [i \in {o - pos : o \in {p \in DOMAIN f.bytes : pos <= p /\ p < pos + n}}
        |-> f.bytes[i + pos]]

Ok(value) == [ok |-> TRUE, value |-> value]
Err(kind, id) == [ok |-> FALSE, err |-> kind, id |-> id]

\* Header::new: bytes 4 and 5, then bytes 6 to 10
Header_new(f) ==
    IF read_exact_ok(f, 4, 2) /\ read_exact_ok(f, 6, 5)
    THEN Ok(Header(vec_get(f.bytes, 4), vec_get(f.bytes, 5), vec_get(f.bytes, 6),
                   vec_get(f.bytes, 7), vec_get(f.bytes, 8), vec_get(f.bytes, 9),
                   vec_get(f.bytes, 10)))
    ELSE Err("io", 0)

\* offset of the PRG data: 16, and 512 more after a trainer
prg_start(h) == IF has_trainer(h) THEN 16 + 512 ELSE 16

prg_len(h) == h.prg_rom_chunks * 16384
chr_len(h) == h.chr_rom_chunks * 8192

\* variant: an unknown mapper id falls back to mapper 0
select_mapper_fallback(h) ==
    Ok(Mapper0_new(h.prg_rom_chunks, h.chr_rom_chunks))

\* match header.get_mapper_id(): "Mapper {:04} not supported" for an id other
\* than 0
select_mapper(h) ==
    IF get_mapper_id(h) = 0
    THEN Ok(Mapper0_new(h.prg_rom_chunks, h.chr_rom_chunks))
    ELSE Err("mapper", get_mapper_id(h))

\* Cartridge::new after the header is parsed
Cartridge_load(f, h) ==
    IF ~read_exact_ok(f, prg_start(h), prg_len(h)) THEN Err("io", 0)
    ELSE IF ~read_exact_ok(f, prg_start(h) + prg_len(h), chr_len(h))
    THEN Err("io", 0)
    ELSE IF ~select_mapper(h).ok THEN select_mapper(h)
    ELSE Ok([prg_rom |-> read_exact(f, prg_start(h), prg_len(h)),
             prg_size |-> prg_len(h),
             chr_rom |-> read_exact(f, prg_start(h) + prg_len(h), chr_len(h)),
             chr_size |-> chr_len(h),
             mapper |-> select_mapper(h).value,
             mirror |-> get_mirror_mode(h)])

\* Cartridge::new: Ok(Cartridge) or the error
Cartridge_new(f) ==
    IF ~f.exists THEN Err("io", 0)
    ELSE IF ~Header_new(f).ok THEN Header_new(f)
    ELSE Cartridge_load(f, Header_new(f).value)

\* a call of Cartridge::new
Cartridge_new_call(f) ==
    /\ call' = [fn |-> "Cartridge_new", file |-> f, result |-> Cartridge_new(f)]
    /\ UNCHANGED <<ppu, ram, cartridge, bus_last, bus_ret, pending, word_ret,
                   header, borrow>>

(***************************************************************************)
(* Specifications                                                          *)
(***************************************************************************)
\* the register interface without the clock
Next ==
    \/ reset /\ UNCHANGED rest
    \/ \E a \in {8194, 8196, 8199, 8192} : readb(a) /\ UNCHANGED rest
    \/ \E d \in CtrlBytes : writeb(8192, d) /\ UNCHANGED rest
    \/ \E d \in AddrBytes : writeb(8198, d) /\ UNCHANGED rest
    \/ \E d \in DataBytes :
          regs.addr \in DataAddrs /\ writeb(8199, d) /\ UNCHANGED rest
    \/ \E p \in PaletteIds : get_palette(p) /\ UNCHANGED rest

Spec == Init /\ [][Next]_vars

\* only the clock, every call counted
NextClock == clock_counted /\ UNCHANGED rest

SpecClock == InitBlank /\ [][NextClock]_vars

\* the clock with the operations that touch the status, the control register
\* and the nmi flag
NextTiming ==
    \/ clock /\ UNCHANGED rest
    \/ reset /\ UNCHANGED rest
    \/ readb(8194) /\ UNCHANGED rest
    \/ \E d \in NmiBytes : writeb(8192, d) /\ UNCHANGED rest

SpecTiming == InitBlank /\ [][NextTiming]_vars

\* the clock with the status read and the address register
NextStatus ==
    \/ clock /\ UNCHANGED rest
    \/ readb(8194) /\ UNCHANGED rest
    \/ \E d \in StatusAddrBytes : writeb(8198, d) /\ UNCHANGED rest

SpecStatus == InitBlank /\ [][NextStatus]_vars

\* the clock with reset and the writes that make registers, latch and nmi
\* differ from their initial values; the driver writes the high address byte only
NextReset ==
    \/ clock /\ UNCHANGED rest
    \/ reset /\ UNCHANGED rest
    \/ \E d \in ResetCtrlBytes : writeb(8192, d) /\ UNCHANGED rest
    \/ \E d \in StatusAddrBytes :
          ~addr_latch_set /\ writeb(8198, d) /\ UNCHANGED rest

SpecReset == InitBlank /\ [][NextReset]_vars

\* writes of every byte to the control register and to the mask register, each
\* while the other register holds one of a few values
NextCtrlMask ==
    \/ \E d \in Byte :
          regs.mask \in OtherRegBytes /\ writeb(8192, d) /\ UNCHANGED rest
    \/ \E d \in Byte :
          regs.ctrl \in OtherRegBytes /\ writeb(8193, d) /\ UNCHANGED rest
    \/ \E d \in StatusAddrBytes : writeb(8198, d) /\ UNCHANGED rest

SpecCtrlMask == InitBlank /\ [][NextCtrlMask]_vars

\* the cartridges the driver inserts
BusCartridges == {Cartridge_dummy("HORIZONTAL")}

\* byte accesses on the bus, with and without a cartridge
NextBus ==
    \/ \E c \in BusCartridges : insert_cartridge(c)
    \/ \E a \in BusReadAddrs : NESMemory_readb(a)
    \/ \E a \in BusWriteAddrs, d \in BusBytes : NESMemory_writeb(a, d)

SpecBus == InitBlank /\ [][NextBus]_vars

\* addresses of the word reads: 0x0000, 0x07FF, 0x1FFF, 0x2001, 0xFFFE, 0xFFFF
WordAddrs == {0, 2047, 8191, 8193, 65534, 65535}
\* addresses of the word writes: 0x0000, 0x07FF, 0x1FFF, 0xFFFE, 0xFFFF
WordWriteAddrs == {0, 2047, 8191, 65534, 65535}
\* words written: 0x1234, 0xFF00
WordData == {4660, 65280}

\* word accesses on a bus without cartridge
NextWord ==
    \/ \E a \in WordAddrs : readw_lo(a)
    \/ readw_hi
    \/ \E a \in WordWriteAddrs, w \in WordData : writew_lo(a, w)
    \/ writew_hi

SpecWord == InitBlank /\ [][NextWord]_vars

\* decoding of every opcode byte
NextDecode == \E o \in Byte : decode_op(o)

SpecDecode == InitBlank /\ [][NextDecode]_vars

\* bytes of the header fields other than the two flag bytes
OtherHeaderBytes == {0, 255}

\* the headers the methods are called on: every pair of flag bytes
Headers == {Header(o, o, f1, f2, o, o, o) :
                f1 \in Byte, f2 \in Byte, o \in OtherHeaderBytes}

InitHeader ==
    /\ PPU_new /\ mem = [a \in MemAddrs |-> 0]
    /\ NESMemory_new
    /\ bus_last = NoOp("new") /\ bus_ret = 0
    /\ pending = NoPending /\ word_ret = 0
    /\ call = NoCall
    /\ header \in Headers

\* the methods of a parsed Header
NextHeader ==
    \/ Header_call("has_trainer", has_trainer(header))
    \/ Header_call("get_mapper_id", get_mapper_id(header))
    \/ Header_call("get_mirror_mode", get_mirror_mode(header))

SpecHeader == InitHeader /\ [][NextHeader]_vars

\* the files loaded: header bytes 4 to 7 and one data byte at offsets 16, 528
\* and at the last PRG offset of a one-chunk container without trainer
FilePrgChunks == {0, 1, 2}
FileChrChunks == {0, 1}
\* flags_1: none, vertical, trainer, mapper low nibble 1, all bits
FileFlags1 == {0, 1, 4, 16, 255}
\* flags_2: none, mapper high nibble 1, low nibble only
FileFlags2 == {0, 16, 15}
\* lengths: empty, header cut short, header only, up to the trainer, and the
\* ends of the PRG and CHR data of the containers above
FileLens == {0, 10, 16, 528, 16399, 16400, 24592, 25104, 41488}

Files ==
    {File(e, n, (4 :> p) @@ (5 :> c) @@ (6 :> f1) @@ (7 :> f2) @@ (16 :> 76)
                  @@ (528 :> 169) @@ (16399 :> 234)) :
        e \in BOOLEAN, n \in FileLens, p \in FilePrgChunks, c \in FileChrChunks,
        f1 \in FileFlags1, f2 \in FileFlags2}

NextLoad == \E f \in Files : Cartridge_new_call(f)

SpecLoad == InitBlank /\ [][NextLoad]_vars

\* PPU-side memories for the pattern tables: the two bitplane bytes of row 4
\* of tile (3, 2) of table 1 (0x1234, 0x123C) and the four entries of palette 0
\* (0x3F00..0x3F03)
PlaneLow == {0, 15, 255}
PlaneHigh == {0, 51, 255}
PaletteEntry2 == {2, 66}
PaletteEntry3 == {3, 48}

PatternMems ==
    {(4660 :> lo) @@ (4668 :> hi) @@ (16128 :> 13) @@ (16129 :> 1)
        @@ (16130 :> e2) @@ (16131 :> e3) :
        lo \in PlaneLow, hi \in PlaneHigh, e2 \in PaletteEntry2,
        e3 \in PaletteEntry3}

InitPattern == PPU_new /\ Rest_new /\ mem \in PatternMems

\* the two pattern tables, drawn with palette 0
NextPattern ==
    \E i \in 0..1, p \in PaletteIds : get_pattern_table(i, p) /\ UNCHANGED rest

SpecPattern == InitPattern /\ [][NextPattern]_vars

\* the flags of the status and of the control register
StatusFlags == {SPRITE_OVERFOLW, SPRITE_ZERO_HIT, VERTICAL_BLANK}
ControlFlags == {NAMETBL_X, NAMETBL_Y, INCREMENT_MODE, PATTERN_SPRITE_ADDR,
                 PATTERN_BG_ADDR, SPRITE_SIZE, SLAVE_MODE, ENABLE_NMI}

\* single flags set and cleared in any order
NextFlags ==
    \/ \E f \in StatusFlags, v \in BOOLEAN : PPU_set_status(f, v) /\ UNCHANGED rest
    \/ \E f \in ControlFlags, v \in BOOLEAN :
          PPU_set_control(f, v) /\ UNCHANGED rest

SpecFlags == InitBlank /\ [][NextFlags]_vars

\* the last operation was the write of d to register a
wrote(a, d) == last = [op |-> "writeb", addr |-> a, data |-> d]

\* the clock after each prefix of a fixed sequence of register operations that
\* makes control, mask, VRAM address, latch, PPU-side memory, read buffer and
\* palette 0 differ from their initial values: 0x84 to 0x2000, 0x1E to 0x2001,
\* 0x20 and 0x07 to 0x2006, 0xAB to 0x2007, 0x20 to 0x2006, a read of 0x2007,
\* get_palette(0)
NextFrame ==
    \/ clock /\ UNCHANGED rest
    \/ last.op = "new" /\ writeb(8192, 132) /\ UNCHANGED rest
    \/ wrote(8192, 132) /\ writeb(8193, 30) /\ UNCHANGED rest
    \/ wrote(8193, 30) /\ writeb(8198, 32) /\ UNCHANGED rest
    \/ wrote(8198, 32) /\ readb_ppu(mem, 8199) = 0 /\ writeb(8198, 7)
          /\ UNCHANGED rest
    \/ wrote(8198, 7) /\ writeb(8199, 171) /\ UNCHANGED rest
    \/ wrote(8199, 171) /\ writeb(8198, 32) /\ UNCHANGED rest
    \/ wrote(8198, 32) /\ readb_ppu(mem, 8199) # 0 /\ readb(8199)
          /\ UNCHANGED rest
    \/ last.op = "readb" /\ get_palette(0) /\ UNCHANGED rest

SpecFrame == InitBlank /\ [][NextFrame]_vars

(***************************************************************************)
(* Properties                                                              *)
(***************************************************************************)
CyclesPerLine == 341
ScanlinesPerFrame == 262

VBlank == get_status(regs.status, VERTICAL_BLANK)

IsClock == last.op = "clock"
IsReset == last.op = "reset"
IsRead(a) == last.op = "readb" /\ last.addr = a
IsWrite(a) == last.op = "writeb" /\ last.addr = a

\* C1: from a new PPU, after n clock calls the position is
\* (cycle = n mod 341, scanline = (n div 341) mod 262), and frame_ready is true
\* exactly from the clock call taken at (scanline 261, cycle 340) on, which is
\* call number 341 * 262.
C1_ClockAdvance ==
    /\ cycle = clocks % CyclesPerLine
    /\ scanline = (clocks \div CyclesPerLine) % ScanlinesPerFrame
    /\ frame_ready <=> clocks >= CyclesPerLine * ScanlinesPerFrame

C1_Witness ==
    /\ clocks = CyclesPerLine * ScanlinesPerFrame
    /\ cycle = 0 /\ scanline = 0 /\ frame_ready

\* C2: under any sequence of clock, status reads, control writes and reset the
\* counters stay in range: 0 <= cycle <= 340 and 0 <= scanline <= 261.
C2_CountersInRange == cycle \in 0..340 /\ scanline \in 0..261

C2_Witness == cycle = 340 /\ scanline = 261 /\ frame_ready /\ IsReset

\* C3: when only clock is called, the vertical-blank bit goes from clear to
\* set exactly on the call that arrives at (scanline 241, cycle 1), from set to
\* clear exactly on the call that arrives at (scanline 261, cycle 1), and no
\* other clock call changes the status register.
C3_VBlankTiming ==
    [][ /\ (~VBlank /\ VBlank') <=> (scanline' = 241 /\ cycle' = 1)
        /\ (VBlank /\ ~VBlank') <=> (scanline' = 261 /\ cycle' = 1)
        /\ regs'.status # regs.status =>
              (scanline' \in {241, 261} /\ cycle' = 1) ]_vars

C3_Witness == ~VBlank /\ scanline = 261 /\ cycle = 1 /\ frame_ready

\* C4: nmi goes from false to true only in a clock call that arrives at
\* (scanline 241, cycle 1) while ENABLE_NMI is set in the control register, and
\* every such call leaves nmi true; with ENABLE_NMI clear at that call nmi is
\* not raised, and no register write, register read or reset changes nmi.
C4_NmiRequest ==
    [][ LET arrives == IsClock' /\ scanline' = 241 /\ cycle' = 1
            enabled == get_control(regs.ctrl, ENABLE_NMI)
        IN  /\ (~nmi /\ nmi') => (arrives /\ enabled)
            /\ (arrives /\ enabled) => nmi'
            /\ (arrives /\ ~enabled) => (nmi' = nmi)
            /\ ~IsClock' => (nmi' = nmi) ]_vars

C4_Witness == nmi /\ IsClock /\ scanline = 241 /\ cycle = 1 /\ ~frame_ready

\* C5: a read of 0x2002 returns the status byte as it was before the read;
\* after it the vertical-blank bit is clear, the other status bits are
\* unchanged and the latch is unset, so the next write to 0x2006 stores into the
\* high byte of the VRAM address and leaves the low byte.
C5_StatusRead ==
    [][ /\ IsRead(8194)' =>
              /\ ret' = regs.status
              /\ ~VBlank'
              /\ BitAnd(regs'.status, 127) = BitAnd(regs.status, 127)
              /\ ~addr_latch_set'
        /\ (run = <<>> /\ IsWrite(8198)') =>
              /\ regs'.addr \div 256 = last'.data
              /\ regs'.addr % 256 = regs.addr % 256 ]_vars

C5_Witness ==
    /\ IsWrite(8198) /\ run = <<18>> /\ ret = 128
    /\ regs.addr = 4626 /\ addr_latch_set

\* C6: starting with the latch unset (new PPU or after a 0x2002 read), the k-th
\* write of byte b to 0x2006 replaces the high byte of the VRAM address when k
\* is odd and the low byte when k is even, leaves the other byte unchanged and
\* toggles the latch; writing 0x12, 0x34, 0x56 yields 0x1200, 0x1234, 0x5634.
C6_AddrProtocol ==
    [][ (IsWrite(8198)' /\ run' # Poison) =>
          LET k == Len(run')
              b == last'.data
          IN  /\ run' = Append(run, b)
              /\ addr_latch_set' = ~addr_latch_set
              /\ (k % 2 = 1) =>
                    /\ ~addr_latch_set
                    /\ regs'.addr \div 256 = b
                    /\ regs'.addr % 256 = regs.addr % 256
              /\ (k % 2 = 0) =>
                    /\ addr_latch_set
                    /\ regs'.addr % 256 = b
                    /\ regs'.addr \div 256 = regs.addr \div 256
              /\ (run' = <<18>> /\ regs.addr = 0) => regs'.addr = 4608
              /\ (run' = <<18, 52>> /\ regs.addr = 4608) => regs'.addr = 4660
              /\ (run' = <<18, 52, 86>> /\ regs.addr = 4660) => regs'.addr = 22068
    ]_vars

C6_Witness ==
    /\ IsWrite(8198) /\ run = <<18, 52, 86>>
    /\ regs.addr = 22068 /\ addr_latch_set

\* C7: for a VRAM address A loaded through 0x2006, a read of 0x2007 refills the
\* read buffer with the PPU-side memory byte at A; it returns the byte the
\* buffer held before when A < 0x3F00 and the byte at A when A >= 0x3F00.
C7_BufferedRead ==
    [][ (IsRead(8199)' /\ run # Poison /\ Len(run) = 2) =>
          LET A == regs.addr
          IN  /\ data_buffer' = readb_ppu(mem, A)
              /\ ret' = IF A < 16128 THEN data_buffer ELSE readb_ppu(mem, A)
    ]_vars

\* C8: a write of byte b to 0x2007 stores b into PPU-side memory at the VRAM
\* address held before the write and then increases the VRAM address (a 16-bit
\* register) by 32 if bit 2 of the control register is set and by 1 otherwise;
\* the latch and the read buffer are not changed.
C8_DataWrite ==
    [][ IsWrite(8199)' =>
          LET inc == IF (regs.ctrl \div 4) % 2 = 1 THEN 32 ELSE 1
          IN  /\ ~panicked'
              /\ mem' = writeb_ppu(mem, regs.addr, last'.data)
              /\ regs'.addr = (regs.addr + inc) % 65536
              /\ UNCHANGED <<addr_latch_set, data_buffer>>
    ]_vars

\* C9: for every byte b a write of b to 0x2000 does not fail and leaves the
\* control register equal to b, a write of b to 0x2001 does not fail and leaves
\* the mask register equal to b; neither changes any other register, the latch,
\* the read buffer, the nmi flag or the timing counters.
C9_CtrlMaskTotal ==
    [][ /\ IsWrite(8192)' =>
              /\ ~panicked'
              /\ regs' = [regs EXCEPT !.ctrl = last'.data]
              /\ UNCHANGED <<timing, addr_latch_set, data_buffer>>
        /\ IsWrite(8193)' =>
              /\ ~panicked'
              /\ regs' = [regs EXCEPT !.mask = last'.data]
              /\ UNCHANGED <<timing, addr_latch_set, data_buffer>>
    ]_vars

C9_Witness ==
    /\ IsWrite(8193) /\ last.data = 255 /\ regs.mask = 255 /\ regs.ctrl = 255
    /\ regs.addr = 4608 /\ addr_latch_set /\ ~panicked

ppu_state == <<regs, timing, targets, addr_latch_set, data_buffer, mem, panicked>>

IsBusRead == bus_last.op = "readb"
IsBusWrite == bus_last.op = "writeb"

\* the ram byte a bus address in 0x0000..0x1FFF stands for
RamAt(b) == IF b % 2048 \in DOMAIN ram THEN ram[b % 2048] ELSE 0

\* bus addresses at which the ram is observed
RamProbes == {0, 1, 2047, 2048, 2049, 4095, 4096, 6143, 6144, 8191}

\* C11: for a, b in 0x0000..0x1FFF, after a bus write of v to a the byte read at
\* b is v when (a & 0x07FF) = (b & 0x07FF) and what b held before otherwise, a
\* bus read at b returns that byte and changes nothing, with or without a
\* cartridge.
C11_RamMirroring ==
    [][ /\ (IsBusWrite' /\ bus_last'.addr \in 0..8191) =>
              \A b \in RamProbes :
                  RamAt(b)' = IF bus_last'.addr % 2048 = b % 2048
                              THEN bus_last'.data ELSE RamAt(b)
        /\ (IsBusRead' /\ bus_last'.addr \in 0..8191) =>
              /\ bus_ret' = RamAt(bus_last'.addr)
              /\ UNCHANGED <<ram, cartridge, ppu>>
    ]_vars

C11_Witness ==
    /\ IsBusRead /\ bus_last.addr = 8191 /\ bus_ret = 18
    /\ cartridge # NoCartridge /\ RamAt(0) = 0

\* C12: for every bus address a in 0x2000..0x3FFF a bus read or write at a has
\* the result and the effect on the PPU of the same access at register
\* 0x2000 + (a & 7), and touches neither ram nor cartridge.
C12_RegisterWindow ==
    [][ /\ (IsBusWrite' /\ bus_last'.addr \in 8192..16383) =>
              /\ writeb(8192 + (bus_last'.addr % 8), bus_last'.data)
              /\ UNCHANGED <<ram, cartridge>>
        /\ (IsBusRead' /\ bus_last'.addr \in 8192..16383) =>
              /\ readb(8192 + (bus_last'.addr % 8))
              /\ bus_ret' = ret'
              /\ UNCHANGED <<ram, cartridge>>
    ]_vars

C12_Witness ==
    /\ IsBusRead /\ bus_last.addr = 8202 /\ IsRead(8194)
    /\ regs.addr = 4626 /\ ~addr_latch_set /\ run = <<>>

\* C13: with a cartridge inserted, a bus read in 0x4020..0xFFFF returns the PRG
\* byte at the mapper's offset when the mapper maps the address and the generic
\* result 0x00 when it does not; a bus write in that range changes neither ram
\* nor PPU state.
C13_CartridgeRouting ==
    [][ LET a == bus_last'.addr
            offset == map_read_addr(cartridge.mapper, a)
        IN  (cartridge # NoCartridge /\ a \in 16416..65535) =>
              /\ IsBusRead' =>
                    /\ bus_ret' = IF offset # None
                                  THEN vec_get(cartridge.prg_rom, offset)
                                  ELSE 0
                    /\ UNCHANGED <<ram, cartridge, ppu_state>>
              /\ IsBusWrite' => UNCHANGED <<ram, ppu_state>>
    ]_vars

\* C14: a bus read in 0x4000..0x401F, or in 0x4020..0xFFFF without a cartridge,
\* returns 0x00 and a bus write there changes no ram, PPU or cartridge state; a
\* read of a PPU register other than 0x2002 and 0x2007 returns 0 and changes no
\* PPU state, and a write to 0x2002..0x2005 changes no PPU state.
C14_OutOfRange ==
    [][ LET a == bus_last'.addr
            unserved == \/ a \in 16384..16415
                        \/ a \in 16416..65535 /\ cartridge = NoCartridge
        IN  /\ (IsBusRead' /\ unserved) =>
                  bus_ret' = 0 /\ UNCHANGED <<ram, cartridge, ppu_state>>
            /\ (IsBusWrite' /\ unserved) =>
                  UNCHANGED <<ram, cartridge, ppu_state>>
            /\ (IsBusRead' /\ a \in 8192..16383 /\ a % 8 \notin {2, 7}) =>
                  bus_ret' = 0 /\ UNCHANGED <<ram, cartridge, ppu_state>>
            /\ (IsBusWrite' /\ a \in 8192..16383 /\ a % 8 \in {2, 3, 4, 5}) =>
                  UNCHANGED <<ram, cartridge, ppu_state>>
    ]_vars

C14_Witness ==
    /\ IsBusRead /\ bus_last.addr = 16415 /\ bus_ret = 0
    /\ RamAt(2047) = 18 /\ regs.addr = 4608 /\ addr_latch_set

(***************************************************************************)
(* Properties of the word accesses                                         *)
(***************************************************************************)
\* both bytes of the word at a lie in the ram range
WordInRam(a) == a \in 0..8191 /\ a + 1 \in 0..8191

\* C15: for a with a + 1 <= 0xFFFF, readw(a) performs readb(a), then
\* readb(a + 1), and returns the first byte + 256 * the second; writew(a, w)
\* performs writeb(a, w mod 256), then writeb(a + 1, w div 256); for a and a + 1
\* in the ram range, readw(a) right after writew(a, w) returns w.
C15_WordAccess ==
    [][ /\ (pending.op = "idle" /\ pending'.op = "readw") =>
              /\ bus_read(pending'.addr)
              /\ pending'.lo = bus_ret'
        /\ (pending.op = "readw" /\ pending.addr + 1 <= 65535) =>
              /\ bus_read(pending.addr + 1)
              /\ pending'.done = "readw"
              /\ word_ret' = pending.lo + 256 * bus_ret'
              /\ (pending.after[1] = "writew" /\ pending.after[2] = pending.addr
                    /\ WordInRam(pending.addr)) =>
                       word_ret' = pending.after[3]
        /\ (pending.op = "idle" /\ pending'.op = "writew") =>
              bus_write(pending'.addr, pending'.data % 256)
        /\ (pending.op = "writew" /\ pending.addr + 1 <= 65535) =>
              /\ bus_write(pending.addr + 1, pending.data \div 256)
              /\ pending'.done = "writew"
    ]_vars

C15_Witness ==
    /\ pending.op = "idle" /\ pending.done = "readw" /\ pending.addr = 2047
    /\ word_ret = 4660 /\ RamAt(2047) = 52 /\ RamAt(0) = 18

(***************************************************************************)
(* Properties of the instruction table                                     *)
(***************************************************************************)
IsDecode == call.fn = "decode_op"

\* C16: for every opcode byte in 0..255, 0xFF included, decode_op does not
\* fail and returns the one Instruction stored for the byte, whose opcode field
\* is the byte decoded.
C16_DecodeTotal ==
    IsDecode =>
        /\ ~panicked
        /\ call.ok
        /\ call.result.opcode = call.arg
        /\ Cardinality(INSTRUCTION_SET_get(call.arg)) = 1

C16_Witness ==
    /\ IsDecode /\ call.arg = 255 /\ call.ok
    /\ call.result = Instruction(255, "ABX", "ISB", <<7, 0>>)

\* C17: every opcode in 0..255 that decodes to the operation KIL has the
\* implied addressing mode and the cycle cost [1, 0].
C17_HaltClass ==
    (IsDecode /\ call.ok /\ call.result.operation = "KIL") =>
        /\ call.result.addr_mode = "IMP"
        /\ call.result.cycles = <<1, 0>>

C17_Witness ==
    /\ IsDecode /\ call.arg = 242 /\ call.ok /\ call.result.operation = "KIL"
    /\ call.result.addr_mode = "IMP"

(***************************************************************************)
(* Properties of the Header                                                *)
(***************************************************************************)
\* C18: for every pair of flag bytes the mapper id is
\* (flags_2 & 0xF0) | (flags_1 >> 4): 16 * high nibble of flags_2 + high nibble
\* of flags_1, whatever the low nibbles and the other header bytes are.
C18_MapperId ==
    call.fn = "get_mapper_id" =>
        /\ call.result = BitOr(BitAnd(header.mapper2, 240), header.mapper1 \div 16)
        /\ call.result = 16 * (header.mapper2 \div 16) + (header.mapper1 \div 16)

C18_Witness ==
    /\ call.fn = "get_mapper_id" /\ call.result = 165
    /\ header.mapper1 = 95 /\ header.mapper2 = 175 /\ header.tv1 = 255

\* C19: for every flags_1 byte the mirroring mode is vertical iff bit 0 is set
\* and has_trainer is true iff bit 2 is set, whatever the other bits of the
\* header are.
C19_HeaderFlags ==
    /\ call.fn = "get_mirror_mode" =>
          call.result = IF header.mapper1 % 2 = 1 THEN "VERTICAL"
                        ELSE "HORIZONTAL"
    /\ call.fn = "has_trainer" =>
          (call.result <=> (header.mapper1 \div 4) % 2 = 1)

C19_Witness ==
    /\ call.fn = "has_trainer" /\ call.result = TRUE
    /\ header.mapper1 = 4 /\ header.mapper2 = 255 /\ header.tv1 = 0

(***************************************************************************)
(* Properties of Cartridge::new                                            *)
(***************************************************************************)
IsLoad == call.fn = "Cartridge_new"

\* the flag bytes and chunk counts a file carries in its header
FileByte(f, o) == IF o \in DOMAIN f.bytes THEN f.bytes[o] ELSE 0
FileMapperId(f) == 16 * (FileByte(f, 7) \div 16) + (FileByte(f, 6) \div 16)
FileDataStart(f) == IF (FileByte(f, 6) \div 4) % 2 = 1 THEN 528 ELSE 16

\* the file holds a whole header
HasHeader(f) == f.exists /\ f.len >= 16

\* the file holds the header, the trainer if flagged, and all PRG and CHR data
Complete(f) ==
    /\ HasHeader(f)
    /\ f.len >= FileDataStart(f) + FileByte(f, 4) * 16384 + FileByte(f, 5) * 8192

\* C20 as stated: loading any ROM container whose header encodes a mapper id
\* other than 0 fails with the unsupported-mapper error carrying that id and
\* produces no Cartridge; a header with mapper id 0 followed by complete PRG/CHR
\* data loads with mapper 0.
C20_UnsupportedMapper ==
    IsLoad =>
        /\ (HasHeader(call.file) /\ FileMapperId(call.file) # 0) =>
              call.result = Err("mapper", FileMapperId(call.file))
        /\ (Complete(call.file) /\ FileMapperId(call.file) = 0) =>
              /\ call.result.ok
              /\ call.result.value.mapper =
                    Mapper0_new(FileByte(call.file, 4), FileByte(call.file, 5))

\* C20 amended: loading a ROM container with complete PRG/CHR data whose header
\* encodes a mapper id other than 0 fails with the unsupported-mapper error
\* carrying that id; no container with such a header produces a Cartridge; a
\* header with mapper id 0 followed by complete PRG/CHR data loads with mapper 0.
C20_UnsupportedMapperComplete ==
    IsLoad =>
        /\ (Complete(call.file) /\ FileMapperId(call.file) # 0) =>
              call.result = Err("mapper", FileMapperId(call.file))
        /\ (HasHeader(call.file) /\ FileMapperId(call.file) # 0) =>
              ~call.result.ok
        /\ (Complete(call.file) /\ FileMapperId(call.file) = 0) =>
              /\ call.result.ok
              /\ call.result.value.mapper =
                    Mapper0_new(FileByte(call.file, 4), FileByte(call.file, 5))

C20_Witness ==
    /\ IsLoad /\ Complete(call.file) /\ FileByte(call.file, 4) = 1
    /\ FileByte(call.file, 6) = 16 /\ FileByte(call.file, 7) = 16
    /\ call.result = Err("mapper", 17)

\* bus operations that reach the PPU in steps (borrow, register access,
\* return), bus operations on the ram, and the driver sampling in between
BorrowReadAddrs == {8192, 8194, 10242}
BorrowWriteAddrs == {8192, 8198}
BorrowBytes == {0, 63, 128}

NextBorrow ==
    \/ \E a \in BorrowReadAddrs : ppu_acquire("readb", a, 0)
    \/ \E a \in BorrowWriteAddrs, d \in BorrowBytes : ppu_acquire("writeb", a, d)
    \/ ppu_access
    \/ ppu_release
    \/ sample_nmi
    \/ pending.op = "idle" /\ NESMemory_readb(2047)
    \/ \E d \in BorrowBytes : pending.op = "idle" /\ NESMemory_writeb(2047, d)

SpecBorrow == InitBlank /\ [][NextBorrow]_vars

(***************************************************************************)
(* Properties of the pattern tables                                        *)
(***************************************************************************)
\* bit n of a byte
Bit(b, n) == (b \div (2 ^ n)) % 2

\* C23: get_pattern_table(i, palette) colours pixel (tx*8 + c, ty*8 + r) with
\* the palette colour of the 2-bit index whose low bit is bit (7 - c) of the
\* byte at i*0x1000 + ty*256 + tx*16 + r and whose high bit is bit (7 - c) of
\* the byte 8 addresses higher.
C23_PatternPixels ==
    [][ last'.op = "get_pattern_table" =>
          LET i == last'.addr
              pal == last'.data
          IN  \A tx \in 0..15, ty \in 0..15, r \in 0..7, c \in 0..7 :
                LET a == i * 4096 + ty * 256 + tx * 16 + r
                    idx == Bit(readb_ppu(mem, a), 7 - c)
                           + 2 * Bit(readb_ppu(mem, a + 8), 7 - c)
                IN  pattern_tables'[i].px[<<tx * 8 + c, ty * 8 + r>>] =
                      PALETTE(readb_ppu(mem, 16128 + pal * 4 + idx) % 64)
    ]_vars

(***************************************************************************)
(* Properties of the cycle costs                                           *)
(***************************************************************************)
\* addressing modes that can neither cross a page nor take a branch: implied,
\* immediate, zero page, zero page with X or Y, absolute, indirect, pre-indexed
FixedCostModes == {"IMP", "IMM", "ZP0", "ZPX", "ZPY", "ABS", "IND", "IZX"}

\* C22: for every opcode in 0..255 the second cycle element is 0 or 1, and it
\* is 0 for every opcode whose addressing mode can neither cross a page nor
\* take a branch.
C22_ExtraCycle ==
    (IsDecode /\ call.ok) =>
        /\ call.result.cycles[2] \in {0, 1}
        /\ call.result.addr_mode \in FixedCostModes => call.result.cycles[2] = 0

\* C29: every opcode in 0..255 whose operation is not KIL has a base cycle
\* count from 2 to 8; a base cost of 1 occurs for KIL opcodes only.
C29_BaseCycles ==
    (IsDecode /\ call.ok) =>
        /\ call.result.operation # "KIL" => call.result.cycles[1] \in 2..8
        /\ call.result.cycles[1] = 1 => call.result.operation = "KIL"

(***************************************************************************)
(* Properties of the flag setters, the clock frame and the sticky flags    *)
(***************************************************************************)
\* the byte b with the bit of the single flag f made equal to v
WithBit(b, f, v) == (b - f * ((b \div f) % 2)) + (IF v THEN f ELSE 0)

\* C24: setting or clearing one status flag, or one control flag, changes that
\* bit of that register only, leaves the other register and all else unchanged,
\* and changes nothing when repeated with the same value.
C24_FlagIndependence ==
    [][ /\ last'.op = "set_status" =>
              /\ regs' = [regs EXCEPT
                            !.status = WithBit(@, last'.addr, last'.data)]
              /\ last' = last => regs' = regs
        /\ last'.op = "set_control" =>
              /\ regs' = [regs EXCEPT
                            !.ctrl = WithBit(@, last'.addr, last'.data)]
              /\ last' = last => regs' = regs
    ]_vars

C24_Witness ==
    /\ last = [op |-> "set_status", addr |-> SPRITE_ZERO_HIT, data |-> FALSE]
    /\ regs.status = 128 /\ regs.ctrl = 4

\* C25: a clock call changes nothing except cycle, scanline, frame_ready, nmi
\* and the vertical-blank bit of the status register: Control, Mask, the VRAM
\* address, the latch, the read buffer, the render targets and the PPU-side
\* memory stay as they are.
C25_ClockFrame ==
    [][ IsClock' =>
          /\ regs' = [regs EXCEPT !.status = regs'.status]
          /\ regs'.status % 128 = regs.status % 128
          /\ UNCHANGED <<addr_latch_set, data_buffer, targets, mem, panicked>>
    ]_vars

C25_Witness ==
    /\ IsClock /\ scanline = 241 /\ cycle = 1 /\ VBlank /\ nmi
    /\ regs.ctrl = 132 /\ regs.mask = 30 /\ regs.addr = 8231 /\ addr_latch_set
    /\ data_buffer = 171 /\ readb_ppu(mem, 8199) = 171
    /\ palettes[0] # from_pixel(4, 1, PALETTE(0))

\* the position lies between (scanline 241, cycle 1) and (scanline 261, cycle 0)
InVBlankWindow ==
    \/ scanline = 241 /\ cycle >= 1
    \/ scanline \in 242..260
    \/ scanline = 261 /\ cycle = 0

\* C26: whenever the vertical-blank bit is set the position lies in the window
\* from (scanline 241, cycle 1) to (scanline 261, cycle 0); a read of 0x2002
\* and reset never set the bit.
C26_VBlankWindow ==
    /\ VBlank => InVBlankWindow
    /\ (IsRead(8194) \/ IsReset) => ~VBlank

C26_Witness ==
    /\ VBlank /\ scanline = 261 /\ cycle = 0 /\ IsClock /\ frame_ready
    /\ regs.ctrl = 128

\* C27: once frame_ready is true it stays true, and once nmi is true it stays
\* true, under clock calls, register reads, register writes and reset.
C27_StickyFlags ==
    [][ /\ frame_ready => frame_ready'
        /\ nmi => nmi' ]_vars

C27_Witness ==
    /\ frame_ready /\ nmi /\ IsReset /\ scanline = 0 /\ cycle = 0
    /\ regs.ctrl = 0

(***************************************************************************)
(* Properties of the VRAM address arithmetic                               *)
(***************************************************************************)
\* C28: for every VRAM address A and either increment mode a write to 0x2007
\* completes and leaves the VRAM address equal to (A + increment) mod 2^16, the
\* increment being 32 with INCREMENT_MODE set and 1 otherwise; no write fails
\* on overflow.
C28_AddrWraps ==
    [][ IsWrite(8199)' =>
          /\ ~panicked'
          /\ regs'.addr =
                (regs.addr + (IF get_control(regs.ctrl, INCREMENT_MODE)
                              THEN 32 ELSE 1)) % 65536
    ]_vars


(***************************************************************************)
(* Properties of the shared PPU                                            *)
(***************************************************************************)
\* a bus operation routed to the PPU is in progress
InPpuAccess == pending.op \in {"readb", "writeb"}

\* C21: a bus read or write routed to the PPU holds the shared PPU for the
\* duration of its one register access, as a reader or as a writer, and has
\* released it when it returns: the PPU is never held by a reader and a writer
\* at once, it is unheld whenever no bus operation is in progress, and the
\* driver sampling the nmi flag between two bus operations finds it unheld.
C21_ExclusiveAccess ==
    /\ ~(borrow.readers > 0 /\ borrow.writer)
    /\ (InPpuAccess => borrow = acquired(Unborrowed, pending.op))
    /\ (~InPpuAccess => borrow = Unborrowed)
    /\ (call.fn = "sample_nmi" => call.ok /\ ~panicked)

\* the driver has sampled after a bus read of the status register returned, and
\* a bus write to the control register now holds the PPU as the writer, its
\* register access made
C21_Witness ==
    /\ call.fn = "sample_nmi" /\ call.ok
    /\ bus_last = [op |-> "writeb", addr |-> 8192, data |-> 128]
    /\ InPpuAccess /\ pending.at = "accessed"
    /\ borrow.writer /\ borrow.readers = 0
    /\ regs.ctrl = 128
    /\ last.op = "writeb"

====
